---- MODULE Spec2Model ----
(***************************************************************************)
(* Call-lifecycle tracking of wavbot (daily_phone.py): the DialOutHandler  *)
(* retry state machine and the DialInHandler event callbacks, as they are  *)
(* registered on one transport by bot().                                   *)
(*                                                                         *)
(* A Python dict is a function from its keys to its values; a handler      *)
(* instance is the index of its setting in dialout_settings.  A coroutine  *)
(* runs atomically from one suspension point to the next: the only         *)
(* suspension point of start() that outlives a step is the awaited         *)
(* transport.start_dialout request, so a start() that issued a request     *)
(* stays suspended (pending) until the request returns or raises.          *)
(***************************************************************************)
EXTENDS Integers, Sequences, FiniteSets, TLC

VARIABLES
    dialout_settings,  \* bot(): the dial-out settings list of the session
    max_attempts,      \* DialOutHandler.max_attempts, per instance
    attempt_count,     \* DialOutHandler.attempt_count, per instance
    status,            \* DialOutHandler.status, per instance
    pending,           \* per instance: start() calls suspended in start_dialout
    dialouts,          \* per instance: targets passed to transport.start_dialout
    captureLog,        \* ids passed to transport.capture_participant_transcription
    task_cancels,      \* cancel() calls made on the owning pipeline task
    raised,            \* exceptions that left start() or a handler unhandled
    extStarts,         \* per instance: start() calls made from outside the handlers
    errEvents,         \* per instance: on_dialout_error invocations
    last               \* the operation that ran last

vars == <<dialout_settings, max_attempts, attempt_count, status, pending,
          dialouts, captureLog, task_cancels, raised, extStarts, errEvents, last>>

-----------------------------------------------------------------------------
(* Bounds of the model *)

MaxAttemptsBound == 2   \* max_attempts ranges over 0..MaxAttemptsBound
MaxStarts == 4          \* start() invocations explored per session
MaxCaptures == 2        \* capture requests explored per session
MaxDialinEvents == 3    \* dial-in events explored per session
MultiMaxAttempts == 1   \* max_attempts of a session with several destinations

-----------------------------------------------------------------------------
(* Values *)

None == "None"

Keys == {"phoneNumber", "callerId", "sipUri"}

FieldValue == [k \in Keys |->
                 CASE k = "phoneNumber" -> "+1555"
                   [] k = "callerId" -> "+1999"
                   [] k = "sipUri" -> "sip:x@y"]

\* every mapping the request body can carry as one dial-out setting
Settings == {[k \in K |-> FieldValue[k]] : K \in SUBSET Keys}

Statuses == {"pending", "connected", "answered", "failed", "stopped"}

\* the payloads of an on_dialout_answered event: with or without sessionId
AnsweredData == {[sessionId |-> "abc"], <<>>}

\* the participant of an on_first_participant_joined event
Participants == {[id |-> "p1"], [id |-> "p2"]}

Outcomes == {"returned", "raised"}

Handlers == DOMAIN dialout_settings

RECURSIVE SumOver(_, _)
SumOver(f, S) ==
    IF S = {} THEN 0
    ELSE LET x == CHOOSE y \in S : TRUE IN f[x] + SumOver(f, S \ {x})

\* start() invocations made so far in the session, over all instances
Invocations == SumOver(attempt_count, DOMAIN attempt_count)

-----------------------------------------------------------------------------
(* Helpers of DialOutHandler.start *)

\* dict.get(key): the value, or None when the key is absent
Get(data, key) == IF key \in DOMAIN data THEN data[key] ELSE None

OverBudget_ge(count, max) == count >= max

OverBudget_plus1(count, max) == count > max + 1

OverBudget_eq(count, max) == count = max + 1

\* `if self.attempt_count > self.max_attempts`
OverBudget(count, max) == count > max

DialTargets_sipFirst(setting) ==
    IF "sipUri" \in DOMAIN setting
    THEN <<[k \in {"sipUri"} |-> setting[k]]>>
    ELSE IF "phoneNumber" \in DOMAIN setting
         THEN <<[k \in {"phoneNumber"} |-> setting[k]]>>
         ELSE <<>>

DialTargets_twoIfs(setting) ==
    (IF "phoneNumber" \in DOMAIN setting
     THEN IF "callerId" \in DOMAIN setting
          THEN <<[k \in {"phoneNumber", "callerId"} |-> setting[k]]>>
          ELSE <<[k \in {"phoneNumber"} |-> setting[k]]>>
     ELSE <<>>)
    \o (IF "sipUri" \in DOMAIN setting
        THEN <<[k \in {"sipUri"} |-> setting[k]]>>
        ELSE <<>>)

\* the start_dialout requests one within-budget start() makes, in order
DialTargets(setting) ==
    IF "phoneNumber" \in DOMAIN setting
    THEN IF "callerId" \in DOMAIN setting
         THEN <<[k \in {"phoneNumber", "callerId"} |-> setting[k]]>>
         ELSE <<[k \in {"phoneNumber"} |-> setting[k]]>>
    ELSE IF "sipUri" \in DOMAIN setting
         THEN <<[k \in {"sipUri"} |-> setting[k]]>>
         ELSE <<>>

StartFrom_resetsPending(h, st) ==
    /\ attempt_count' = [attempt_count EXCEPT ![h] = @ + 1]
    /\ IF OverBudget(attempt_count[h] + 1, max_attempts[h])
       THEN /\ status' = [status EXCEPT ![h] = "failed"]
            /\ UNCHANGED <<dialouts, pending>>
       ELSE /\ status' = [status EXCEPT ![h] = "pending"]
            /\ dialouts' = [dialouts EXCEPT
                               ![h] = @ \o DialTargets(dialout_settings[h])]
            /\ pending' = [pending EXCEPT
                               ![h] = @ + Len(DialTargets(dialout_settings[h]))]

\* start() of instance h, entered with status st, up to its return or to its
\* suspension in start_dialout
StartFrom(h, st) ==
    /\ attempt_count' = [attempt_count EXCEPT ![h] = @ + 1]
    /\ IF OverBudget(attempt_count[h] + 1, max_attempts[h])
       THEN /\ status' = [status EXCEPT ![h] = "failed"]
            /\ UNCHANGED <<dialouts, pending>>
       ELSE /\ status' = [status EXCEPT ![h] = st]
            /\ dialouts' = [dialouts EXCEPT
                               ![h] = @ \o DialTargets(dialout_settings[h])]
            /\ pending' = [pending EXCEPT
                               ![h] = @ + Len(DialTargets(dialout_settings[h]))]

Op(op, h, d, prev, arg) ==
    [op |-> op, h |-> h, d |-> d, prev |-> prev, arg |-> arg]

-----------------------------------------------------------------------------
(* DialOutHandler: operations *)

\* start() called from outside the handlers
start(h) ==
    /\ Invocations < MaxStarts
    /\ StartFrom(h, status[h])
    /\ extStarts' = [extStarts EXCEPT ![h] = @ + 1]
    /\ last' = Op("start", h, h, status[h], "")
    /\ UNCHANGED <<dialout_settings, max_attempts, captureLog, task_cancels,
                   raised, errEvents>>

start_dialout_done_uncaught(h, outcome) ==
    /\ pending[h] > 0
    /\ pending' = [pending EXCEPT ![h] = @ - 1]
    /\ raised' = IF outcome = "raised" THEN raised + 1 ELSE raised
    /\ last' = Op("start_dialout_done", h, h, status[h], outcome)
    /\ UNCHANGED <<dialout_settings, max_attempts, attempt_count, status,
                   dialouts, captureLog, task_cancels, extStarts, errEvents>>

\* the awaited start_dialout of a suspended start() returns or raises; start()
\* catches the exception, records the failure and returns
start_dialout_done(h, outcome) ==
    /\ pending[h] > 0
    /\ pending' = [pending EXCEPT ![h] = @ - 1]
    /\ status' = IF outcome = "raised"
                 THEN [status EXCEPT ![h] = "failed"]
                 ELSE status
    /\ last' = Op("start_dialout_done", h, h, status[h], outcome)
    /\ UNCHANGED <<dialout_settings, max_attempts, attempt_count, dialouts,
                   captureLog, task_cancels, raised, extStarts, errEvents>>

\* The handlers of every instance are registered on the one transport under
\* the same event names and do not look at the event's data: the handler of
\* instance h runs for an event about destination d, whichever d is.

on_dialout_connected_guarded(h, d) ==
    /\ status' = IF status[h] = "pending"
                 THEN [status EXCEPT ![h] = "connected"]
                 ELSE status
    /\ last' = Op("on_dialout_connected", h, d, status[h], "")
    /\ UNCHANGED <<dialout_settings, max_attempts, attempt_count, pending,
                   dialouts, captureLog, task_cancels, raised, extStarts,
                   errEvents>>

on_dialout_connected(h, d) ==
    /\ status' = [status EXCEPT ![h] = "connected"]
    /\ last' = Op("on_dialout_connected", h, d, status[h], "")
    /\ UNCHANGED <<dialout_settings, max_attempts, attempt_count, pending,
                   dialouts, captureLog, task_cancels, raised, extStarts,
                   errEvents>>

on_dialout_answered_noCapture(h, d, data) ==
    /\ Len(captureLog) < MaxCaptures
    /\ status' = [status EXCEPT ![h] = "answered"]
    /\ last' = Op("on_dialout_answered", h, d, status[h],
                  IF "sessionId" \in DOMAIN data THEN data["sessionId"] ELSE "")
    /\ UNCHANGED <<dialout_settings, max_attempts, attempt_count, pending,
                   dialouts, captureLog, task_cancels, raised, extStarts,
                   errEvents>>

on_dialout_answered(h, d, data) ==
    /\ Len(captureLog) < MaxCaptures
    /\ status' = [status EXCEPT ![h] = "answered"]
    /\ captureLog' = Append(captureLog, Get(data, "sessionId"))
    /\ last' = Op("on_dialout_answered", h, d, status[h],
                  IF "sessionId" \in DOMAIN data THEN data["sessionId"] ELSE "")
    /\ UNCHANGED <<dialout_settings, max_attempts, attempt_count, pending,
                   dialouts, task_cancels, raised, extStarts, errEvents>>

on_dialout_stopped(h, d) ==
    /\ status' = [status EXCEPT ![h] = "stopped"]
    /\ last' = Op("on_dialout_stopped", h, d, status[h], "")
    /\ UNCHANGED <<dialout_settings, max_attempts, attempt_count, pending,
                   dialouts, captureLog, task_cancels, raised, extStarts,
                   errEvents>>

on_dialout_error_noRetry(h, d) ==
    /\ Invocations < MaxStarts
    /\ status' = [status EXCEPT ![h] = "failed"]
    /\ errEvents' = [errEvents EXCEPT ![h] = @ + 1]
    /\ last' = Op("on_dialout_error", h, d, status[h], "")
    /\ UNCHANGED <<dialout_settings, max_attempts, attempt_count, pending,
                   dialouts, captureLog, task_cancels, raised, extStarts>>

on_dialout_error_keepStatus(h, d) ==
    /\ Invocations < MaxStarts
    /\ StartFrom(h, status[h])
    /\ errEvents' = [errEvents EXCEPT ![h] = @ + 1]
    /\ last' = Op("on_dialout_error", h, d, status[h], "")
    /\ UNCHANGED <<dialout_settings, max_attempts, captureLog, task_cancels,
                   raised, extStarts>>

\* status = "failed", then `await self.start()`
on_dialout_error(h, d) ==
    /\ Invocations < MaxStarts
    /\ StartFrom(h, "failed")
    /\ errEvents' = [errEvents EXCEPT ![h] = @ + 1]
    /\ last' = Op("on_dialout_error", h, d, status[h], "")
    /\ UNCHANGED <<dialout_settings, max_attempts, captureLog, task_cancels,
                   raised, extStarts>>

on_dialout_warning_retries(h, d) ==
    /\ Invocations < MaxStarts
    /\ StartFrom(h, status[h])
    /\ last' = Op("on_dialout_warning", h, d, status[h], "")
    /\ UNCHANGED <<dialout_settings, max_attempts, captureLog, task_cancels,
                   raised, extStarts, errEvents>>

on_dialout_warning(h, d) ==
    /\ last' = Op("on_dialout_warning", h, d, status[h], "")
    /\ UNCHANGED <<dialout_settings, max_attempts, attempt_count, status,
                   pending, dialouts, captureLog, task_cancels, raised,
                   extStarts, errEvents>>

-----------------------------------------------------------------------------
(* A session with dial-out settings *)

\* DialOutHandler.__init__, once per entry of settings
InitDialOut(settings) ==
    /\ dialout_settings = settings
    /\ max_attempts \in [DOMAIN settings -> 0..MaxAttemptsBound]
    /\ attempt_count = [h \in DOMAIN settings |-> 0]
    /\ status = [h \in DOMAIN settings |-> "pending"]
    /\ pending = [h \in DOMAIN settings |-> 0]
    /\ dialouts = [h \in DOMAIN settings |-> <<>>]
    /\ captureLog = <<>>
    /\ task_cancels = 0
    /\ raised = 0
    /\ extStarts = [h \in DOMAIN settings |-> 0]
    /\ errEvents = [h \in DOMAIN settings |-> 0]
    /\ last = Op("init", 0, 0, "", "")

\* one destination
Init == \E s \in Settings : InitDialOut(<<s>>)

Next ==
    \/ \E h \in Handlers : start(h)
    \/ \E h \in Handlers, outcome \in Outcomes : start_dialout_done(h, outcome)
    \/ \E h \in Handlers, d \in Handlers : on_dialout_connected(h, d)
    \/ \E h \in Handlers, d \in Handlers, data \in AnsweredData :
           on_dialout_answered(h, d, data)
    \/ \E h \in Handlers, d \in Handlers : on_dialout_stopped(h, d)
    \/ \E h \in Handlers, d \in Handlers : on_dialout_error(h, d)
    \/ \E h \in Handlers, d \in Handlers : on_dialout_warning(h, d)

Spec == Init /\ [][Next]_vars

-----------------------------------------------------------------------------
(* DialInHandler: operations.  Each handler is one callback of the         *)
(* transport; nothing of the instance changes, the effects are the         *)
(* requests made of the transport and of the pipeline task, and whatever   *)
(* the callback raises.                                                    *)

on_dialin_ready ==
    /\ last' = Op("on_dialin_ready", 0, 0, "", "")
    /\ UNCHANGED <<dialout_settings, max_attempts, attempt_count, status,
                   pending, dialouts, captureLog, task_cancels, raised,
                   extStarts, errEvents>>

on_dialin_connected ==
    /\ last' = Op("on_dialin_connected", 0, 0, "", "")
    /\ UNCHANGED <<dialout_settings, max_attempts, attempt_count, status,
                   pending, dialouts, captureLog, task_cancels, raised,
                   extStarts, errEvents>>

on_dialin_stopped ==
    /\ last' = Op("on_dialin_stopped", 0, 0, "", "")
    /\ UNCHANGED <<dialout_settings, max_attempts, attempt_count, status,
                   pending, dialouts, captureLog, task_cancels, raised,
                   extStarts, errEvents>>

\* `raise ("Call Error")`: raising a str is a TypeError, which leaves the
\* handler; the cancel of the task is commented out
on_dialin_error ==
    /\ raised < MaxDialinEvents
    /\ raised' = raised + 1
    /\ last' = Op("on_dialin_error", 0, 0, "", "")
    /\ UNCHANGED <<dialout_settings, max_attempts, attempt_count, status,
                   pending, dialouts, captureLog, task_cancels, extStarts,
                   errEvents>>

on_dialin_warning ==
    /\ last' = Op("on_dialin_warning", 0, 0, "", "")
    /\ UNCHANGED <<dialout_settings, max_attempts, attempt_count, status,
                   pending, dialouts, captureLog, task_cancels, raised,
                   extStarts, errEvents>>

on_first_participant_joined_noCapture(participant) ==
    /\ Len(captureLog) < MaxCaptures
    /\ last' = Op("on_first_participant_joined", 0, 0, "", participant["id"])
    /\ UNCHANGED <<dialout_settings, max_attempts, attempt_count, status,
                   pending, dialouts, captureLog, task_cancels, raised,
                   extStarts, errEvents>>

on_first_participant_joined(participant) ==
    /\ Len(captureLog) < MaxCaptures
    /\ captureLog' = Append(captureLog, participant["id"])
    /\ last' = Op("on_first_participant_joined", 0, 0, "", participant["id"])
    /\ UNCHANGED <<dialout_settings, max_attempts, attempt_count, status,
                   pending, dialouts, task_cancels, raised, extStarts,
                   errEvents>>

-----------------------------------------------------------------------------
(* A session with several dial-out settings: one instance per setting, all *)
(* registered on the same transport                                        *)

TwoDestinations ==
    <<[phoneNumber |-> "+1555", callerId |-> "+1999"], [sipUri |-> "sip:x@y"]>>

\* bot() gives every instance the same max_attempts
InitMulti ==
    /\ InitDialOut(TwoDestinations)
    /\ \A h \in DOMAIN TwoDestinations : max_attempts[h] = MultiMaxAttempts

SpecMulti == InitMulti /\ [][Next]_vars

(* A dial-in session: a DialInHandler and no dial-out setting *)

InitIn == InitDialOut(<<>>)

NextIn ==
    \/ on_dialin_ready
    \/ on_dialin_connected
    \/ on_dialin_stopped
    \/ on_dialin_error
    \/ on_dialin_warning
    \/ \E participant \in Participants : on_first_participant_joined(participant)

SpecIn == InitIn /\ [][NextIn]_vars

(* A transport that answers every start_dialout request with an           *)
(* on_dialout_error event delivered inside the request: the handler, and   *)
(* the start() it awaits, run nested in the suspended start().  The        *)
(* request answered is the one issued last; a request returns (or raises)  *)
(* only after the handler nested in it has completed, innermost first.     *)

\* the outermost start(), called once
SyncStart(h) ==
    /\ attempt_count[h] = 0
    /\ start(h)

\* the error event for the request issued last, not answered yet
SyncError(h) ==
    /\ errEvents[h] < Len(dialouts[h])
    /\ on_dialout_error(h, h)

\* every request issued was answered and the innermost handler completed:
\* the innermost suspended start() resumes
SyncReturn(h, outcome) ==
    /\ errEvents[h] = Len(dialouts[h])
    /\ start_dialout_done(h, outcome)

NextSync ==
    \/ \E h \in Handlers : SyncStart(h)
    \/ \E h \in Handlers : SyncError(h)
    \/ \E h \in Handlers, outcome \in Outcomes : SyncReturn(h, outcome)

\* the interpreter keeps running the nested calls
SpecSync == Init /\ [][NextSync]_vars /\ WF_vars(NextSync)

(* A bot() session: one DialOutHandler per setting, constructed with the  *)
(* default max_attempts; bot() keeps the instances in `handlers` and never *)
(* calls start() on them, so only the transport's events run.              *)

DefaultMaxAttempts == 5

InitBot_autoStart ==
    \E s \in Settings :
        /\ dialout_settings = <<s>>
        /\ max_attempts = <<DefaultMaxAttempts>>
        /\ attempt_count = <<1>>
        /\ status = <<"pending">>
        /\ pending = <<Len(DialTargets(s))>>
        /\ dialouts = <<DialTargets(s)>>
        /\ captureLog = <<>>
        /\ task_cancels = 0
        /\ raised = 0
        /\ extStarts = <<0>>
        /\ errEvents = <<0>>
        /\ last = Op("init", 0, 0, "", "")

\* DialOutHandler(transport, setting): the state __init__ leaves
InitBot ==
    \E s \in Settings :
        /\ dialout_settings = <<s>>
        /\ max_attempts = <<DefaultMaxAttempts>>
        /\ attempt_count = <<0>>
        /\ status = <<"pending">>
        /\ pending = <<0>>
        /\ dialouts = <<<<>>>>
        /\ captureLog = <<>>
        /\ task_cancels = 0
        /\ raised = 0
        /\ extStarts = <<0>>
        /\ errEvents = <<0>>
        /\ last = Op("init", 0, 0, "", "")

NextBot ==
    \/ \E h \in Handlers, outcome \in Outcomes : start_dialout_done(h, outcome)
    \/ \E h \in Handlers, d \in Handlers : on_dialout_connected(h, d)
    \/ \E h \in Handlers, d \in Handlers, data \in AnsweredData :
           on_dialout_answered(h, d, data)
    \/ \E h \in Handlers, d \in Handlers : on_dialout_stopped(h, d)
    \/ \E h \in Handlers, d \in Handlers : on_dialout_error(h, d)
    \/ \E h \in Handlers, d \in Handlers : on_dialout_warning(h, d)

SpecBot == InitBot /\ [][NextBot]_vars

-----------------------------------------------------------------------------
(* Properties *)

TypeOK ==
    /\ status \in [Handlers -> Statuses]
    /\ attempt_count \in [Handlers -> 0..MaxStarts]
    /\ pending \in [Handlers -> 0..MaxStarts]
    /\ \A h \in Handlers : Len(dialouts[h]) \in 0..MaxStarts
    /\ Len(captureLog) \in 0..MaxCaptures

\* the setting names a destination: it has a phoneNumber or a sipUri
NamesDestination(h) ==
    \/ "phoneNumber" \in DOMAIN dialout_settings[h]
    \/ "sipUri" \in DOMAIN dialout_settings[h]

\* this step is on_dialout_error run by instance h
ErrorStep(h) ==
    /\ last'.op = "on_dialout_error"
    /\ last'.h = h
    /\ errEvents'[h] = errEvents[h] + 1

\* this step is start() entered by instance h, from outside or from
\* on_dialout_error, with the attempt budget not exhausted
WithinBudgetStartStep(h) ==
    /\ last'.op \in {"start", "on_dialout_error"}
    /\ last'.h = h
    /\ extStarts'[h] + errEvents'[h] = extStarts[h] + errEvents[h] + 1
    /\ attempt_count[h] + 1 <= max_attempts[h]

\* C1: with max_attempts = N and a setting that names a destination, one
\* outside start() followed only by error-driven re-invocations issues at most
\* N start_dialout requests, exactly N once N invocations were made; the
\* error after the N-th request leaves status "failed" and issues nothing,
\* and so does every later error.
C1_ExactlyNRequests ==
    /\ [](\A h \in Handlers :
            (extStarts[h] = 1 /\ NamesDestination(h)) =>
                /\ Len(dialouts[h]) <= max_attempts[h]
                /\ (attempt_count[h] >= max_attempts[h]
                      => Len(dialouts[h]) = max_attempts[h]))
    /\ [][\A h \in Handlers :
            (/\ extStarts[h] = 1
             /\ NamesDestination(h)
             /\ ErrorStep(h)
             /\ Len(dialouts[h]) = max_attempts[h])
            => (status'[h] = "failed" /\ dialouts'[h] = dialouts[h])]_vars

\* C1 witness: N >= 1, one outside start(), N requests issued, and two
\* errors past the N-th request, the last one just handled.
C1_Witness ==
    \E h \in Handlers :
        /\ extStarts[h] = 1
        /\ NamesDestination(h)
        /\ max_attempts[h] >= 1
        /\ Len(dialouts[h]) = max_attempts[h]
        /\ attempt_count[h] = max_attempts[h] + 2
        /\ status[h] = "failed"
        /\ last.op = "on_dialout_error"

\* C2 (as stated): attempt_count never exceeds max_attempts + 1.
C2_AttemptCountBounded ==
    \A h \in Handlers : attempt_count[h] <= max_attempts[h] + 1

\* C2 (amended): attempt_count is the number of start() invocations made so
\* far, outside calls plus on_dialout_error events, with no bound of its own;
\* what never exceeds the budget is the number of start_dialout requests
\* issued, which is at most max_attempts.
C2_CountsInvocations ==
    \A h \in Handlers :
        /\ attempt_count[h] = extStarts[h] + errEvents[h]
        /\ Len(dialouts[h]) <= max_attempts[h]

\* C2 witness: attempt_count beyond max_attempts + 1 with exactly max_attempts
\* requests issued.
C2_Witness ==
    \E h \in Handlers :
        /\ max_attempts[h] >= 1
        /\ attempt_count[h] > max_attempts[h] + 1
        /\ Len(dialouts[h]) = max_attempts[h]
        /\ last.op = "on_dialout_error"

\* C3 (as stated): once status is "stopped", a later on_dialout_error causes
\* no retry: status stays "stopped", no start() runs, no request is issued.
C3_StoppedSticky ==
    [][\A h \in Handlers :
         (status[h] = "stopped" /\ ErrorStep(h))
         => /\ status'[h] = "stopped"
            /\ attempt_count'[h] = attempt_count[h]
            /\ dialouts'[h] = dialouts[h]]_vars

\* C3 (amended): "stopped" is not sticky under errors: an on_dialout_error
\* arriving after the stop sets status to "failed" and invokes start() once,
\* which issues one start_dialout request unless the attempt budget is
\* exhausted or the setting names no destination.
C3_StoppedThenErrorRetries ==
    [][\A h \in Handlers :
         (status[h] = "stopped" /\ ErrorStep(h))
         => /\ status'[h] = "failed"
            /\ attempt_count'[h] = attempt_count[h] + 1
            /\ Len(dialouts'[h]) =
                 IF attempt_count[h] + 1 <= max_attempts[h] /\ NamesDestination(h)
                 THEN Len(dialouts[h]) + 1
                 ELSE Len(dialouts[h])]_vars

\* C3 witness: the only start() so far was made by an error handled in state
\* "stopped", and it issued a request.
C3_Witness ==
    \E h \in Handlers :
        /\ last = Op("on_dialout_error", h, h, "stopped", "")
        /\ status[h] = "failed"
        /\ attempt_count[h] = 1
        /\ Len(dialouts[h]) = 1

\* C4: every on_dialin_error event cancels the owning pipeline task exactly
\* once and leaves the handler without raising.
C4_DialinErrorCancels ==
    [][last'.op = "on_dialin_error"
         => (task_cancels' = task_cancels + 1 /\ raised' = raised)]_vars

\* C5: when the awaited start_dialout raises, start() sets status to "failed"
\* and returns normally: nothing is raised to the caller of start().
C5_FailureAbsorbed ==
    [][\A h \in Handlers :
         (/\ last'.op = "start_dialout_done"
          /\ last'.h = h
          /\ last'.arg = "raised"
          /\ pending'[h] = pending[h] - 1)
         => (status'[h] = "failed" /\ raised' = raised)]_vars

\* C5 witness: the start() whose request raised was invoked by
\* on_dialout_error (no outside start() was made), in a state other than
\* "failed".
C5_Witness ==
    \E h \in Handlers :
        /\ last.op = "start_dialout_done"
        /\ last.h = h
        /\ last.arg = "raised"
        /\ last.prev = "connected"
        /\ extStarts[h] = 0
        /\ status[h] = "failed"
        /\ raised = 0

\* C6: instances on one transport do not interact: a step about destination d
\* changes neither status nor attempt_count of another instance and issues
\* no request for it.
C6_NoInteraction ==
    [][\A h \in Handlers :
         last'.d # h
         => /\ status'[h] = status[h]
            /\ attempt_count'[h] = attempt_count[h]
            /\ dialouts'[h] = dialouts[h]]_vars

\* C7 (as stated): once the budget is exhausted and status is "failed",
\* status is "failed" in every later state.
C7_FailedTerminal ==
    [][\A h \in Handlers :
         (attempt_count[h] > max_attempts[h] /\ status[h] = "failed")
         => status'[h] = "failed"]_vars

\* C7 (amended): once start() has found the budget exhausted, the exhaustion
\* is terminal: attempt_count stays above max_attempts, no further
\* start_dialout request is issued and nothing is raised to any caller; the
\* status "failed" survives start() calls, returning or failing requests and
\* error and warning events, while a later connected, answered or stopped
\* event overwrites it.
C7_ExhaustionTerminal ==
    [][\A h \in Handlers :
         attempt_count[h] > max_attempts[h]
         => /\ attempt_count'[h] > max_attempts[h]
            /\ dialouts'[h] = dialouts[h]
            /\ raised' = raised
            /\ (status[h] = "failed" /\ status'[h] # "failed")
                 => /\ last'.op \in {"on_dialout_connected",
                                     "on_dialout_answered",
                                     "on_dialout_stopped"}
                    /\ last'.h = h]_vars

\* C7 witness: after the budget was exhausted (max_attempts >= 1 requests
\* issued, two more invocations), a connected event replaced "failed".
C7_Witness ==
    \E h \in Handlers :
        /\ max_attempts[h] >= 1
        /\ attempt_count[h] >= max_attempts[h] + 2
        /\ Len(dialouts[h]) = max_attempts[h]
        /\ last = Op("on_dialout_connected", h, h, "failed", "")
        /\ status[h] = "connected"

\* C8: for a setting with phoneNumber XOR sipUri, a within-budget start()
\* issues exactly one request: {phoneNumber, callerId} when both are in the
\* setting, {phoneNumber} when callerId is absent, {sipUri} alone otherwise.
C8_PayloadBySetting ==
    [][\A h \in Handlers :
         LET s == dialout_settings[h] IN
         (/\ WithinBudgetStartStep(h)
          /\ ("phoneNumber" \in DOMAIN s) # ("sipUri" \in DOMAIN s))
         => dialouts'[h] = Append(dialouts[h],
                IF "phoneNumber" \in DOMAIN s /\ "callerId" \in DOMAIN s
                THEN [phoneNumber |-> s["phoneNumber"], callerId |-> s["callerId"]]
                ELSE IF "phoneNumber" \in DOMAIN s
                     THEN [phoneNumber |-> s["phoneNumber"]]
                     ELSE [sipUri |-> s["sipUri"]])]_vars

\* C8 witness: a setting with phoneNumber and callerId was dialled twice
\* within budget, both fields in each request.
C8_Witness ==
    \E h \in Handlers :
        /\ dialout_settings[h] = [phoneNumber |-> "+1555", callerId |-> "+1999"]
        /\ last.op \in {"start", "on_dialout_error"}
        /\ attempt_count[h] = 2
        /\ dialouts[h] = <<[phoneNumber |-> "+1555", callerId |-> "+1999"],
                           [phoneNumber |-> "+1555", callerId |-> "+1999"]>>

\* C9: an on_dialout_answered event carrying sessionId = s sets status to
\* "answered" and issues exactly one capture_participant_transcription
\* request, for s, whatever the status was.
C9_AnsweredCaptures ==
    [][\A h \in Handlers :
         (/\ last'.op = "on_dialout_answered"
          /\ last'.h = h
          /\ last'.arg # "")
         => /\ status'[h] = "answered"
            /\ captureLog' = Append(captureLog, last'.arg)]_vars

\* C9 witness: the event arrived in state "stopped" with sessionId "abc".
C9_Witness ==
    \E h \in Handlers :
        /\ last = Op("on_dialout_answered", h, h, "stopped", "abc")
        /\ status[h] = "answered"
        /\ captureLog = <<"abc">>

\* C10 (as stated): from every status, on_dialout_error sets status to
\* "failed" and invokes start() once (attempt_count + 1), which issues a
\* request if and only if the incremented attempt_count is <= max_attempts.
C10_ErrorRetries ==
    [][\A h \in Handlers :
         ErrorStep(h)
         => /\ status'[h] = "failed"
            /\ attempt_count'[h] = attempt_count[h] + 1
            /\ Len(dialouts'[h]) =
                 IF attempt_count[h] + 1 <= max_attempts[h]
                 THEN Len(dialouts[h]) + 1
                 ELSE Len(dialouts[h])]_vars

\* C10 (amended): as stated, except that the invocation issues a request if
\* and only if the incremented attempt_count is <= max_attempts and the
\* setting names a destination (phoneNumber or sipUri).
C10_ErrorRetriesIfDestination ==
    [][\A h \in Handlers :
         ErrorStep(h)
         => /\ status'[h] = "failed"
            /\ attempt_count'[h] = attempt_count[h] + 1
            /\ IF attempt_count[h] + 1 <= max_attempts[h] /\ NamesDestination(h)
               THEN /\ Len(dialouts'[h]) = Len(dialouts[h]) + 1
                    /\ SubSeq(dialouts'[h], 1, Len(dialouts[h])) = dialouts[h]
               ELSE dialouts'[h] = dialouts[h]]_vars

\* C10 witness: an error handled in state "answered" re-dialled within
\* budget, a second attempt.
C10_Witness ==
    \E h \in Handlers :
        /\ last = Op("on_dialout_error", h, h, "answered", "")
        /\ status[h] = "failed"
        /\ attempt_count[h] = 2
        /\ Len(dialouts[h]) = 2

\* C11 (as stated): status changes only along pending -> connected,
\* connected -> answered, answered -> stopped and any -> failed.
C11_NominalTransitionsOnly ==
    [][\A h \in Handlers :
         status'[h] # status[h]
         => \/ <<status[h], status'[h]>> \in {<<"pending", "connected">>,
                                              <<"connected", "answered">>,
                                              <<"answered", "stopped">>}
            \/ status'[h] = "failed"]_vars

\* C11 (amended): status changes only by these assignments, each made from
\* every status: an on_dialout_connected event sets "connected", an
\* on_dialout_answered event sets "answered", an on_dialout_stopped event sets
\* "stopped", and on_dialout_error, an over-budget start() or a failing
\* start_dialout sets "failed"; so "answered" is also entered from statuses
\* other than "connected" and events do move status out of "stopped".
C11_UnguardedTransitions ==
    [][\A h \in Handlers :
         /\ (last'.op = "on_dialout_connected" /\ last'.h = h)
              => status'[h] = "connected"
         /\ (last'.op = "on_dialout_answered" /\ last'.h = h)
              => status'[h] = "answered"
         /\ (last'.op = "on_dialout_stopped" /\ last'.h = h)
              => status'[h] = "stopped"
         /\ status'[h] # status[h]
              => /\ last'.h = h
                 /\ \/ status'[h] = "connected" /\ last'.op = "on_dialout_connected"
                    \/ status'[h] = "answered" /\ last'.op = "on_dialout_answered"
                    \/ status'[h] = "stopped" /\ last'.op = "on_dialout_stopped"
                    \/ /\ status'[h] = "failed"
                       /\ last'.op \in {"on_dialout_error", "start",
                                        "start_dialout_done"}]_vars

\* C11 witness: a connected event moved status out of "stopped".
C11_Witness ==
    \E h \in Handlers :
        /\ last = Op("on_dialout_connected", h, h, "stopped", "")
        /\ status[h] = "connected"

\* this step enters start() of instance h, from outside or from on_dialout_error
StartEntered(h) ==
    /\ last'.op \in {"start", "on_dialout_error"}
    /\ last'.h = h
    /\ extStarts'[h] + errEvents'[h] = extStarts[h] + errEvents[h] + 1

\* the outermost start() of instance h was called and has returned
OutermostReturned(h) ==
    /\ extStarts[h] = 1
    /\ pending[h] = 0
    /\ errEvents[h] = Len(dialouts[h])

\* C12 (as stated): with every request answered by a nested error event, a
\* start() is entered with at most max_attempts start() calls suspended
\* around it (depth <= max_attempts + 1), at most max_attempts requests are
\* issued, and the outermost start() eventually returns with status "failed".
C12_SyncChainEndsFailed ==
    /\ [][\A h \in Handlers :
            StartEntered(h) => pending[h] + 1 <= max_attempts[h] + 1]_vars
    /\ [](\A h \in Handlers : Len(dialouts[h]) <= max_attempts[h])
    /\ [](\A h \in Handlers : OutermostReturned(h) => status[h] = "failed")
    /\ <>(\A h \in Handlers : OutermostReturned(h))

\* C12 (amended): as stated, except that the outermost start() returns with
\* status "failed" when the setting names a destination; for a setting with
\* neither phoneNumber nor sipUri and max_attempts >= 1 no request is issued
\* and start() returns at once with status unchanged.
C12_SyncChainTerminates ==
    /\ [][\A h \in Handlers :
            StartEntered(h) => pending[h] + 1 <= max_attempts[h] + 1]_vars
    /\ [](\A h \in Handlers : Len(dialouts[h]) <= max_attempts[h])
    /\ [](\A h \in Handlers :
            (OutermostReturned(h) /\ NamesDestination(h)) => status[h] = "failed")
    /\ [](\A h \in Handlers :
            (OutermostReturned(h) /\ ~NamesDestination(h) /\ max_attempts[h] >= 1)
            => (status[h] = "pending" /\ dialouts[h] = <<>>))
    /\ <>(\A h \in Handlers : OutermostReturned(h))

\* C12 witness: max_attempts = 2; two nested requests, the start() nested
\* third found the budget exhausted, and all of them have returned.
C12_Witness ==
    \E h \in Handlers :
        /\ OutermostReturned(h)
        /\ max_attempts[h] = 2
        /\ attempt_count[h] = 3
        /\ Len(dialouts[h]) = 2
        /\ errEvents[h] = 2
        /\ status[h] = "failed"
        /\ last.op = "start_dialout_done"

\* C13: an on_dialout_warning event leaves status and attempt_count of every
\* instance unchanged and issues neither a start_dialout nor a
\* capture_participant_transcription request.
C13_WarningNoTransition ==
    [][last'.op = "on_dialout_warning"
         => /\ status' = status
            /\ attempt_count' = attempt_count
            /\ dialouts' = dialouts
            /\ pending' = pending
            /\ captureLog' = captureLog]_vars

\* C13 witness: a warning handled right after the budget was exhausted, with
\* a request still in flight (max_attempts = 1, second start() over budget).
C13_Witness ==
    \E h \in Handlers :
        /\ last = Op("on_dialout_warning", h, h, "failed", "")
        /\ status[h] = "failed"
        /\ max_attempts[h] = 1
        /\ attempt_count[h] = 2
        /\ pending[h] = 1
        /\ Len(dialouts[h]) = 1

\* C14: for a DialInHandler, on_dialin_ready, on_dialin_connected,
\* on_dialin_stopped and on_dialin_warning make no request of the transport
\* and raise nothing; each on_first_participant_joined makes exactly one
\* capture_participant_transcription request, for the id of its participant;
\* no other dial-in event makes one, so the capture requests are the
\* first-participant-joined events, one for one and in their order.
C14_DialinFrame ==
    [][/\ last'.op \in {"on_dialin_ready", "on_dialin_connected",
                        "on_dialin_stopped", "on_dialin_warning"}
          => /\ captureLog' = captureLog
             /\ dialouts' = dialouts
             /\ task_cancels' = task_cancels
             /\ raised' = raised
       /\ last'.op = "on_first_participant_joined"
          => /\ captureLog' = Append(captureLog, last'.arg)
             /\ dialouts' = dialouts
       /\ captureLog' # captureLog
          => last'.op = "on_first_participant_joined"]_vars

\* C14 witness: participants p2 and p1 joined in that order, a warning
\* came in between or after, and the captures are p2, p1.
C14_Witness ==
    /\ captureLog = <<"p2", "p1">>
    /\ last.op = "on_dialin_warning"
    /\ raised = 0

Min(a, b) == IF a < b THEN a ELSE b

\* C15: for a setting that names a destination, the number of start_dialout
\* requests issued so far equals min(attempt_count, max_attempts) in every
\* reachable state, whatever mix of outside start() calls and events
\* occurred, also with handlers running while earlier start() calls are
\* suspended in start_dialout.
C15_RequestsAreMinCountBudget ==
    \A h \in Handlers :
        NamesDestination(h)
        => /\ Len(dialouts[h]) = Min(attempt_count[h], max_attempts[h])
           /\ pending[h] <= Len(dialouts[h])

\* C15 witness: two start() calls are suspended in start_dialout while a
\* third invocation, made by on_dialout_error, found the budget exhausted.
C15_Witness ==
    \E h \in Handlers :
        /\ NamesDestination(h)
        /\ max_attempts[h] = 2
        /\ pending[h] = 2
        /\ attempt_count[h] = 3
        /\ Len(dialouts[h]) = 2
        /\ last.op = "on_dialout_error"

\* C16: no start() call and no event sets status back to "pending"; and an
\* on_dialout_error that re-dials within budget leaves status "failed" with
\* the new attempt in flight, the budget not being exhausted.
C16_PendingOnlyInitially ==
    [][\A h \in Handlers :
         /\ status'[h] = "pending" => status[h] = "pending"
         /\ (/\ ErrorStep(h)
             /\ attempt_count[h] + 1 <= max_attempts[h]
             /\ NamesDestination(h))
            => /\ status'[h] = "failed"
               /\ pending'[h] = pending[h] + 1
               /\ attempt_count'[h] <= max_attempts[h]]_vars

\* C16 witness: status is "failed" after an error that re-dialled, with the
\* request in flight and attempts left.
C16_Witness ==
    \E h \in Handlers :
        /\ last.op = "on_dialout_error"
        /\ last.h = h
        /\ status[h] = "failed"
        /\ pending[h] >= 1
        /\ attempt_count[h] < max_attempts[h]

\* C17: a within-budget start() uses at most one request form.  For a
\* setting with both phoneNumber and sipUri it sends the phoneNumber form
\* (with callerId when the setting has one) and never sipUri; for a setting
\* with neither it issues no request, raises nothing, leaves status as it
\* found it and still consumes one attempt.
C17_OneRequestForm ==
    [][\A h \in Handlers :
         LET s == dialout_settings[h] IN
         WithinBudgetStartStep(h)
         => /\ Len(dialouts'[h]) <= Len(dialouts[h]) + 1
            /\ ("phoneNumber" \in DOMAIN s /\ "sipUri" \in DOMAIN s)
               => /\ Len(dialouts'[h]) = Len(dialouts[h]) + 1
                  /\ SubSeq(dialouts'[h], 1, Len(dialouts[h])) = dialouts[h]
                  /\ LET p == dialouts'[h][Len(dialouts'[h])] IN
                       /\ DOMAIN p = {"phoneNumber", "callerId"} \cap DOMAIN s
                       /\ p["phoneNumber"] = s["phoneNumber"]
            /\ ("phoneNumber" \notin DOMAIN s /\ "sipUri" \notin DOMAIN s)
               => /\ dialouts'[h] = dialouts[h]
                  /\ pending'[h] = pending[h]
                  /\ raised' = raised
                  /\ attempt_count'[h] = attempt_count[h] + 1
                  /\ status'[h] = IF last'.op = "start"
                                  THEN status[h]
                                  ELSE "failed"]_vars

\* C17 witness: a setting with only callerId; an outside start() within
\* budget consumed an attempt, issued nothing and left status "connected".
C17_Witness ==
    \E h \in Handlers :
        /\ dialout_settings[h] = [callerId |-> "+1999"]
        /\ last = Op("start", h, h, "connected", "")
        /\ status[h] = "connected"
        /\ attempt_count[h] = 1
        /\ max_attempts[h] >= 1
        /\ dialouts[h] = <<>>
        /\ raised = 0

\* C17 second case reached: a setting with phoneNumber and sipUri was
\* dialled with the phoneNumber form alone.
C17_BothKeysReached ==
    \E h \in Handlers :
        /\ dialout_settings[h] = [phoneNumber |-> "+1555", sipUri |-> "sip:x@y"]
        /\ dialouts[h] = <<[phoneNumber |-> "+1555"]>>

\* C18: construction leaves attempt_count = 0, status = "pending" and no
\* request issued; no request is issued before start() is invoked; and in a
\* bot() session, where start() is never called from outside, a request is
\* issued only by an on_dialout_error event, the first one included.
C18_BotDialsOnlyOnError ==
    /\ [](last.op = "init"
            => \A h \in Handlers : /\ attempt_count[h] = 0
                                   /\ status[h] = "pending"
                                   /\ dialouts[h] = <<>>
                                   /\ pending[h] = 0)
    /\ [](\A h \in Handlers : /\ extStarts[h] = 0
                              /\ attempt_count[h] = 0 => dialouts[h] = <<>>
                              /\ Len(dialouts[h]) <= errEvents[h])
    /\ [][\A h \in Handlers :
            dialouts'[h] # dialouts[h] => ErrorStep(h)]_vars

\* C18 witness: the first request of the session, issued by the error event
\* handled in state "pending".
C18_Witness ==
    \E h \in Handlers :
        /\ last = Op("on_dialout_error", h, h, "pending", "")
        /\ max_attempts[h] = DefaultMaxAttempts
        /\ extStarts[h] = 0
        /\ errEvents[h] = 1
        /\ attempt_count[h] = 1
        /\ Len(dialouts[h]) = 1
        /\ status[h] = "failed"

====
